---- MODULE Spec2Model ----
(***************************************************************************)
(* A model of src/coverage_pipeline.py: PythonCoveragePipeline.analyze and *)
(* the helpers it calls.  The file system (temporary workspaces, the       *)
(* report tree under output_dir) and the captured output of the external   *)
(* test run are part of the state; the external tool's behaviour is a      *)
(* nondeterministic choice.                                                *)
(*                                                                         *)
(* Text that the code only formats is a TLA+ string.  Text that the code   *)
(* takes apart (assertion strings, captured output) is a sequence of       *)
(* symbols, so that strip(), startswith() and the regular expressions are  *)
(* computed.  A percentage is a rational [n, d] (n/d), compared by cross   *)
(* multiplication; Python's None is the record None.                       *)
(***************************************************************************)
EXTENDS Integers, Sequences, FiniteSets, TLC

\* ---------------------------------------------------------------- bounds
MaxCalls == 2        \* analyze calls in one behaviour
MaxTests == 2        \* len(test_cases) in an analyze call
MaxStrLen == 2       \* symbols in one assertion string (harness specification)
MaxUnits == 2        \* assertion strings in one list (harness specification)
MaxFailed == 2       \* failed count given to the interpreter
MaxRunTests == 4      \* test units in a captured output (extraction specification)
MaxDefs == 2          \* top-level definitions of a module (inspection specification)
MaxNested == 1        \* definitions in the body of a top-level definition
MaxPct == 100        \* percentages given to the interpreter: 0 .. MaxPct

\* ------------------------------------------------------------- constants
TimeoutSeconds == 30

\* ------------------------------------------------------------ primitives
None == [none |-> TRUE]

Rat(n, d) == [n |-> n, d |-> d]
Zero == Rat(0, 1)
IsNum(v) == DOMAIN v = {"n", "d"}
\* v < k and v >= k for a rational v with positive denominator
Lt(v, k) == v.n < k * v.d
Ge(v, k) == v.n >= k * v.d
\* Python truthiness of an Optional[float]: None and 0.0 are falsy
Truthy(v) == v # None /\ v.n # 0

Digit == <<"0", "1", "2", "3", "4", "5", "6", "7", "8", "9">>

RECURSIVE Str(_)
\* str(n) of a non-negative int
Str(n) == IF n < 10 THEN Digit[n + 1] ELSE Str(n \div 10) \o Digit[(n % 10) + 1]

Min(a, b) == IF a < b THEN a ELSE b

\* All sequences over S of length at most n
SeqsUpTo(S, n) == UNION {[1..k -> S] : k \in 0..n}

\* ------------------------------------------------- _generate_interpretation
MsgFailed(failed) == Str(failed) \o " test(s) failed - fix failing tests first"
MsgLowLine == "Low line coverage - significant untested code paths"
MsgModerateLine == "Moderate line coverage - some untested code paths"
MsgLowBranch == "Low branch coverage - untested conditional logic and error paths"
MsgModerateBranch == "Moderate branch coverage - some conditional branches untested"
MsgExcellent == "Excellent coverage - well-tested code"
MsgGoodLineBranches == "Good line coverage but some branches untested"
MsgGoodLine == "Good line coverage achieved"
MsgAdequate == "Adequate coverage"

\* The ladder with the failure test after the coverage tests.
GenerateInterpretationFailedLast(passed, failed, line_cov, branch_cov) ==
    IF Lt(line_cov, 50) THEN MsgLowLine
    ELSE IF Lt(line_cov, 80) THEN MsgModerateLine
    ELSE IF branch_cov # None /\ Lt(branch_cov, 50) THEN MsgLowBranch
    ELSE IF branch_cov # None /\ Lt(branch_cov, 80) THEN MsgModerateBranch
    ELSE IF failed > 0 THEN MsgFailed(failed)
    ELSE IF Ge(line_cov, 90) THEN
        IF Truthy(branch_cov) /\ Ge(branch_cov, 90) THEN MsgExcellent
        ELSE IF Truthy(branch_cov) THEN MsgGoodLineBranches
        ELSE MsgGoodLine
    ELSE MsgAdequate

\* The ladder with the last tier opened at 80 instead of 90.
GenerateInterpretationTier80(passed, failed, line_cov, branch_cov) ==
    IF failed > 0 THEN MsgFailed(failed)
    ELSE IF Lt(line_cov, 50) THEN MsgLowLine
    ELSE IF Lt(line_cov, 80) THEN MsgModerateLine
    ELSE IF branch_cov # None /\ Lt(branch_cov, 50) THEN MsgLowBranch
    ELSE IF branch_cov # None /\ Lt(branch_cov, 80) THEN MsgModerateBranch
    ELSE IF Ge(line_cov, 80) THEN
        IF Truthy(branch_cov) /\ Ge(branch_cov, 90) THEN MsgExcellent
        ELSE IF Truthy(branch_cov) THEN MsgGoodLineBranches
        ELSE MsgGoodLine
    ELSE MsgAdequate

\* _generate_interpretation for a numeric line_cov
GenerateInterpretation(passed, failed, line_cov, branch_cov) ==
    IF failed > 0 THEN MsgFailed(failed)
    ELSE IF Lt(line_cov, 50) THEN MsgLowLine
    ELSE IF Lt(line_cov, 80) THEN MsgModerateLine
    ELSE IF branch_cov # None /\ Lt(branch_cov, 50) THEN MsgLowBranch
    ELSE IF branch_cov # None /\ Lt(branch_cov, 80) THEN MsgModerateBranch
    ELSE IF Ge(line_cov, 90) THEN
        IF Truthy(branch_cov) /\ Ge(branch_cov, 90) THEN MsgExcellent
        ELSE IF Truthy(branch_cov) THEN MsgGoodLineBranches
        ELSE MsgGoodLine
    ELSE MsgAdequate

\* `line_cov < 50` raises TypeError when line_cov is None (a null
\* percent_covered); the comparison is reached only when failed <= 0.
InterpretationRaises(failed, line_cov) == failed <= 0 /\ ~IsNum(line_cov)
TypeErrorMsg == "'<' not supported between instances of 'NoneType' and 'int'"

\* --------------------------------------------------------- _create_test_file
\* An assertion string is a sequence of symbols: the text "assert", one
\* whitespace character, or one other character.
KW == "assert"
SP == " "
Sym == {KW, SP, "x"}

RECURSIVE LStrip(_)
LStrip(s) == IF s # <<>> /\ Head(s) = SP THEN LStrip(Tail(s)) ELSE s

RECURSIVE RStrip(_)
RStrip(s) == IF s # <<>> /\ s[Len(s)] = SP THEN RStrip(SubSeq(s, 1, Len(s) - 1)) ELSE s

\* str.strip()
Strip(s) == RStrip(LStrip(s))

\* str.startswith('assert')
StartsWithAssert(s) == s # <<>> /\ Head(s) = KW

\* The body of one generated test unit, without the strip().
TestCodeNoStrip(test_case) ==
    IF StartsWithAssert(test_case) THEN test_case ELSE <<KW, SP>> \o test_case

\* The body of one generated test unit
TestCode(test_case) ==
    LET test_code == Strip(test_case)
    IN  IF StartsWithAssert(test_code) THEN test_code ELSE <<KW, SP>> \o test_code

\* The generated module: the import of func_name, the alias, and one unit
\* per assertion string, in input order.
CreateTestFile(test_cases, func_name) ==
    [imports |-> func_name,
     alias   |-> "candidate",
     units   |-> [i \in 1..Len(test_cases) |->
                    [name |-> "test_case_" \o Str(i - 1),
                     doc  |-> "Test case " \o Str(i),
                     body |-> TestCode(test_cases[i])]]]

\* ------------------------------------------------- _extract_function_name
\* A name is a sequence of characters.  A source file either does not exist,
\* exists and does not parse, or holds function definitions in the order
\* ast.walk yields them.
Candidate == <<"candidate">>
IsPrivate(name) == name # <<>> /\ Head(name) = "_"

RECURSIVE FirstPublic(_)
FirstPublic(funcs) ==
    IF funcs = <<>> THEN Candidate
    ELSE IF ~IsPrivate(Head(funcs)) THEN Head(funcs)
    ELSE FirstPublic(Tail(funcs))

ExtractFunctionName(python_file) ==
    IF ~python_file.parses THEN Candidate ELSE FirstPublic(python_file.funcs)

SourceFiles ==
    { [exists |-> FALSE, parses |-> FALSE, funcs |-> <<>>],
      [exists |-> TRUE,  parses |-> TRUE,  funcs |-> << <<"_", "g">>, <<"f">> >>] }

\* --------------------------------------------------------- captured output
\* The captured stdout + stderr is a sequence of lines, a line a sequence of
\* words.  The run was started with -vv and --tb=short: one verdict line per
\* test unit, a traceback section and a summary-info line per failed unit,
\* and the closing line with the counts that are not zero.
TestId(i) == "test_coverage.py::test_case_" \o Str(i)
Verdicts == {"PASSED", "FAILED", "SKIPPED"}

Count(outcomes, v) == Cardinality({i \in 1..Len(outcomes) : outcomes[i] = v})

RECURSIVE Concat(_)
Concat(ss) == IF ss = <<>> THEN <<>> ELSE Head(ss) \o Concat(Tail(ss))

VerdictLines(outcomes) ==
    [i \in 1..Len(outcomes) |-> <<TestId(i - 1), outcomes[i]>>]

TracebackLines(outcomes) ==
    Concat([i \in 1..Len(outcomes) |->
        IF outcomes[i] = "FAILED"
        THEN << <<"____", "test_case_" \o Str(i - 1), "____">>,
                <<"test_coverage.py:" \o Str(12 + 4 * i) \o ":", "in", "test_case_" \o Str(i - 1)>>,
                <<"assert", "candidate(1)", "==", "2">>,
                <<"E", "assert", "1", "==", "2">>,
                <<"E", "+", "where", "1", "=", "candidate(1)">> >>
        ELSE <<>>])

SummaryInfoLines(outcomes) ==
    Concat([i \in 1..Len(outcomes) |->
        IF outcomes[i] = "FAILED"
        THEN << <<"FAILED", TestId(i - 1), "-", "assert", "1", "==", "2">> >>
        ELSE <<>>])

CountWords(outcomes, v, word) ==
    IF Count(outcomes, v) > 0 THEN <<Str(Count(outcomes, v)), word>> ELSE <<>>

ClosingLine(outcomes) ==
    IF outcomes = <<>> THEN <<"no", "tests", "ran", "in", "0.01s">>
    ELSE CountWords(outcomes, "FAILED", "failed")
         \o CountWords(outcomes, "PASSED", "passed")
         \o CountWords(outcomes, "SKIPPED", "skipped")
         \o <<"in", "0.05s">>

\* The output of a run whose units ended with the given verdicts
PytestOutput(outcomes) ==
    VerdictLines(outcomes) \o TracebackLines(outcomes)
        \o SummaryInfoLines(outcomes) \o <<ClosingLine(outcomes)>>

\* The output of a run that could not collect the harness (a syntax error in
\* an assertion string): no unit ran.
CollectionErrorOutput ==
    << <<"ERROR", "collecting", "test_coverage.py">>,
       <<"E", "SyntaxError:", "invalid", "syntax">>,
       <<"ERROR", "test_coverage.py">>,
       <<"1", "error", "in", "0.05s">> >>

\* ------------------------------------------------------ _parse_test_results
\* A word of decimal digits, and its value
NumberWord == [n \in 0..99 |-> Str(n)]
NumberWords == {NumberWord[n] : n \in 0..99}
IsNumber(w) == w \in NumberWords
IntOf(w) == CHOOSE n \in 0..99 : w = NumberWord[n]

\* The words of the whole output, a line break between two lines: the regular
\* expression needs the digits and the word on one line, one space apart.
RECURSIVE Words(_)
Words(output) ==
    IF output = <<>> THEN <<>>
    ELSE Head(output) \o (IF Tail(output) = <<>> THEN <<>> ELSE <<"\n">> \o Words(Tail(output)))

\* re.search(r'(\d+) <word>', output): the first match's number, or -1
SearchCount(output, word) ==
    LET ws == Words(output)
        hits == {i \in 1..(Len(ws) - 1) : IsNumber(ws[i]) /\ ws[i + 1] = word}
    IN  IF hits = {} THEN -1
        ELSE IntOf(ws[CHOOSE i \in hits : \A j \in hits : i <= j])

\* 'passed' in output.lower()
MentionsPassed(output) ==
    \E i \in 1..Len(output) : \E j \in 1..Len(output[i]) :
        output[i][j] \in {"passed", "PASSED"}

\* _parse_test_results: <<passed, failed>>
ParseTestResults(output, total_tests) ==
    LET passed_match == SearchCount(output, "passed")
        failed_match == SearchCount(output, "failed")
        passed == IF passed_match >= 0 THEN passed_match ELSE 0
        failed == IF failed_match >= 0 THEN failed_match ELSE 0
    IN  IF passed = 0 /\ failed = 0
        THEN IF MentionsPassed(output) THEN <<total_tests, 0>> ELSE <<0, total_tests>>
        ELSE <<passed, failed>>

\* ----------------------------------------------------- _parse_coverage_json
\* What the call finds at <workspace>/coverage.json: no file, a file that
\* makes the parsing raise, a report without an entry for the source file,
\* or an entry with its summary.  JSON null is None; an absent key is the
\* key's default.
CovPercents == {None, Rat(45, 1), Rat(95, 1)}
CovTotals == {2}
CovCovered == {1, 3}
BranchTotals == {0, 2}
BranchCovered == {1, 3}

CovSummaries ==
    [percent_covered : CovPercents, num_statements : CovTotals,
     covered_lines : CovCovered, has_num_branches : {TRUE},
     num_branches : BranchTotals, covered_branches : BranchCovered]
    \cup
    [percent_covered : CovPercents, num_statements : CovTotals,
     covered_lines : CovCovered, has_num_branches : {FALSE},
     num_branches : {0}, covered_branches : {0}]

CovNone == [line_cov |-> Zero, statement_cov |-> Zero, branch_cov |-> None,
            statements_covered |-> 0, statements_total |-> 0]

\* The branch of _parse_coverage_json that reads a matching entry's summary
ParseSummary(summary) ==
    [line_cov |-> summary.percent_covered,
     statement_cov |-> summary.percent_covered,
     branch_cov |->
        IF summary.has_num_branches /\ summary.num_branches > 0
        THEN Rat(summary.covered_branches * 100, summary.num_branches)
        ELSE None,
     statements_covered |-> summary.covered_lines,
     statements_total |-> summary.num_statements]

CovFiles ==
    { [kind |-> "missing"], [kind |-> "unreadable"], [kind |-> "no_entry"] }
    \cup { [kind |-> "entry", summary |-> s] : s \in CovSummaries }

ParseCoverageJson(cov_file) ==
    IF cov_file.kind = "entry" THEN ParseSummary(cov_file.summary) ELSE CovNone

\* ----------------------------------------------------------- _extract_errors
ErrorCap == 20
FallbackCap == 5
AssertWindow == 30
ContextWindow == 5

\* Substring tests of the code, on the words of a line
FailedWords == {"FAILED"}
AssertWords == {"assert", "AssertionError"}          \* 'assert' in s.lower()
OpWords == {"==", "!=", ">", "<", ">=", "<=", "===="}  \* any of the six operators
Eq2Words == {"==", "===="}                           \* '==' in s
Eq1Words == {"=", "==", "!=", ">=", "<=", "===="}    \* '=' in s
FallbackWords == {"FAILED", "AssertionError", "ERROR"}

HasWord(line, W) == \E k \in 1..Len(line) : line[k] \in W

\* The number after 'test_case_' in a word, or -1
TestCaseWord == [n \in 0..99 |-> {TestId(n), "test_case_" \o Str(n)}]
TestCaseWords == UNION {TestCaseWord[n] : n \in 0..99}
TestCaseNum(w) ==
    IF w \in TestCaseWords THEN CHOOSE n \in 0..99 : w \in TestCaseWord[n] ELSE -1

HasTestCase(line) == \E k \in 1..Len(line) : TestCaseNum(line[k]) >= 0

\* re.search(r'test_case_(\d+)', line): the first match's number
FirstTestCaseNum(line) ==
    TestCaseNum(line[CHOOSE k \in 1..Len(line) :
        /\ TestCaseNum(line[k]) >= 0
        /\ \A m \in 1..(k - 1) : TestCaseNum(line[m]) < 0])

RECURSIVE JoinWords(_)
JoinWords(ws) ==
    IF ws = <<>> THEN ""
    ELSE IF Len(ws) = 1 THEN ws[1]
    ELSE ws[1] \o " " \o JoinWords(Tail(ws))

\* The leading 'E ' and the leading '>' taken off a stripped line
CleanLine(line) ==
    LET a == IF Len(line) > 1 /\ line[1] = "E" THEN Tail(line) ELSE line
    IN  IF a # <<>> /\ a[1] = ">" THEN Tail(a) ELSE a

IsComparison(line) == HasWord(line, AssertWords) /\ HasWord(line, OpWords)

\* The matches of r'assert\s+(.+?)\s*==\s*(.+?)(?:\s|$)': <<a, e>>, the word
\* 'assert' at a, the operator at e, something between and something after.
EqMatches(line) ==
    {ae \in (1..Len(line)) \X (1..Len(line)) :
        /\ line[ae[1]] = "assert"
        /\ ae[2] >= ae[1] + 2
        /\ line[ae[2]] = "=="
        /\ ae[2] < Len(line)}

FirstEqMatch(line) ==
    CHOOSE ae \in EqMatches(line) : \A o \in EqMatches(line) :
        ae[1] < o[1] \/ (ae[1] = o[1] /\ ae[2] <= o[2])

\* Whether line j ends the search for a failed unit's assertion
EndsSearch(line) ==
    /\ IsComparison(line)
    /\ HasWord(CleanLine(line), Eq2Words) => EqMatches(CleanLine(line)) # {}

\* The context lines after the assertion at line j
ContextEntries(lines, j) ==
    LET last == Min(j + ContextWindow - 1, Len(lines))
        keep(k) == /\ lines[k] # <<>>
                   /\ lines[k][1] = "where" \/ HasWord(lines[k], Eq1Words)
                   /\ lines[k][1] # "assert"
        F[k \in (j + 1)..(last + 1)] ==
            IF k > last THEN <<>>
            ELSE (IF keep(k) THEN <<"   " \o JoinWords(lines[k])>> ELSE <<>>) \o F[k + 1]
    IN  IF j + 1 > last THEN <<>> ELSE F[j + 1]

\* The entries one failed unit adds: its heading and what the search finds
FailedEntries(lines, i) ==
    LET n == FirstTestCaseNum(lines[i])
        heading == "\nX Test Case " \o (IF n >= 0 THEN Str(n + 1) ELSE "?") \o " FAILED"
        window == {j \in (i + 1)..Min(i + AssertWindow - 1, Len(lines)) : EndsSearch(lines[j])}
    IN  IF window = {} THEN <<heading, "   (See full output for details)">>
        ELSE LET j == CHOOSE x \in window : \A y \in window : x <= y
                 check_line == CleanLine(lines[j])
             IN  IF HasWord(check_line, Eq2Words)
                 THEN LET ae == FirstEqMatch(check_line)
                      IN  <<heading,
                            "   Expression: " \o JoinWords(SubSeq(check_line, ae[1] + 1, ae[2] - 1)),
                            "   Expected: " \o check_line[ae[2] + 1]>>
                          \o ContextEntries(lines, j)
                 ELSE <<heading, "   " \o JoinWords(check_line)>>

RECURSIVE ScanFailed(_, _, _)
\* The while loop of the targeted pass, from line i on
ScanFailed(lines, i, errors) ==
    IF i > Len(lines) THEN errors
    ELSE IF HasWord(lines[i], FailedWords) /\ HasTestCase(lines[i])
         THEN LET errs == errors \o FailedEntries(lines, i)
              IN  IF Len(errs) >= ErrorCap THEN errs ELSE ScanFailed(lines, i + 1, errs)
         ELSE ScanFailed(lines, i + 1, errors)

RECURSIVE ScanFallback(_, _, _)
\* The coarse pass, from line i on
ScanFallback(lines, i, errors) ==
    IF i > Len(lines) THEN errors
    ELSE IF HasWord(lines[i], FallbackWords)
         THEN LET errs == Append(errors, JoinWords(lines[i]))
              IN  IF Len(errs) >= FallbackCap THEN errs ELSE ScanFallback(lines, i + 1, errs)
         ELSE ScanFallback(lines, i + 1, errors)

ExtractErrors(output) ==
    LET errors == ScanFailed(output, 1, <<>>)
    IN  IF errors = <<>> THEN ScanFallback(output, 1, <<>>) ELSE errors

\* ------------------------------------------------------------------ state
VARIABLES
    pc,         \* [Procs -> stage]: where each caller's analyze call stands
    call,       \* [Procs -> record]: the arguments and locals of that call
    result,     \* [Procs -> CoverageResult | None]: what the last call returned
    tempDirs,   \* the temporary workspaces that exist on disk
    made,       \* how many workspaces mkdtemp has created (their names)
    reports,    \* [Ids -> Int]: the tree at <output_dir>/<id>: NoTree,
                \*   Damaged, or t: the complete htmlcov tree of workspace t
    probe       \* input and output of a helper applied on its own

vars == <<pc, call, result, tempDirs, made, reports, probe>>

Procs == {"p1", "p2"}
SeqProcs == {"p1"}
Ids == {"analysis"}
OutputDir == "coverage_reports"

\* The assertion strings of the pipeline specification
AssertionPool == { <<"x">> }
TestLists == SeqsUpTo(AssertionPool, MaxTests)

\* str(e) of an exception raised by a library call
ExcMsgs == {"", "[Errno 2] No such file or directory: 'pytest'"}

NoExc == [type |-> "none", msg |-> ""]

\* The classes `except Exception` catches, among those the stages raise
ExceptionClasses == {"OSError", "TypeError", "TimeoutExpired"}

\* Line 534: except Exception as e
CaughtByExcept(exc) == exc.type \in ExceptionClasses

\* The tree at a report target: none, a damaged one, or the workspace whose
\* report was copied there
NoTree == 0
Damaged == -1

NoCall ==
    [python_file |-> [exists |-> FALSE, parses |-> FALSE, funcs |-> <<>>],
     test_cases |-> <<>>, problem_id |-> "", temp_dir |-> 0,
     func_name |-> <<>>, test_file |-> None, invoked |-> FALSE,
     inspected |-> FALSE, output |-> <<>>, parsed |-> FALSE,
     tests_passed |-> 0, tests_failed |-> 0, cov |-> CovNone,
     published |-> "no", pub_fault |-> "ok", html_report_path |-> "",
     exc |-> NoExc, ret |-> None, rmtree_calls |-> 0, rmtree_failed |-> FALSE,
     clean |-> FALSE, pub_seq |-> 0, report_before |-> NoTree]

\* ---------------------------------------------------------------- results
ResultFields ==
    {"problem_id", "tests_passed", "tests_failed", "total_tests", "line_coverage",
     "statement_coverage", "branch_coverage", "statements_covered",
     "statements_total", "interpretation", "error_details", "html_report_path"}

\* The record of an early exit with every count zero.
EarlyResultZeroed(c, interpretation, error_details) ==
    [problem_id |-> c.problem_id, tests_passed |-> 0,
     tests_failed |-> 0, total_tests |-> Len(c.test_cases),
     line_coverage |-> Zero, statement_coverage |-> Zero, branch_coverage |-> None,
     statements_covered |-> 0, statements_total |-> 0,
     interpretation |-> interpretation, error_details |-> error_details,
     html_report_path |-> ""]

\* The record the three early exits build (lines 441-454, 519-532, 535-548)
EarlyResult(c, interpretation, error_details) ==
    [problem_id |-> c.problem_id, tests_passed |-> 0,
     tests_failed |-> Len(c.test_cases), total_tests |-> Len(c.test_cases),
     line_coverage |-> Zero, statement_coverage |-> Zero, branch_coverage |-> None,
     statements_covered |-> 0, statements_total |-> 0,
     interpretation |-> interpretation, error_details |-> error_details,
     html_report_path |-> ""]

\* The file-not-found record with no test counted as failed.
NotFoundResultNoneFailed(c) ==
    EarlyResultZeroed(c, "Error: Python file not found", <<"File not found: <python_file>">>)

NotFoundResult(c) ==
    EarlyResult(c, "Error: Python file not found", <<"File not found: <python_file>">>)

\* The timeout handled like any other exception.
TimeoutResultGeneric(c) ==
    EarlyResult(c, "Error: " \o c.exc.msg, <<c.exc.msg>>)

TimeoutResult(c) ==
    EarlyResult(c, "Timeout - execution exceeded " \o Str(TimeoutSeconds) \o " seconds",
                <<"Timeout">>)

ErrorResult(c) ==
    EarlyResult(c, "Error: " \o c.exc.msg, <<c.exc.msg>>)

\* The record of the normal exit (lines 503-516)
NormalResult(c, interpretation, error_details) ==
    [problem_id |-> c.problem_id, tests_passed |-> c.tests_passed,
     tests_failed |-> c.tests_failed, total_tests |-> Len(c.test_cases),
     line_coverage |-> c.cov.line_cov, statement_coverage |-> c.cov.statement_cov,
     branch_coverage |-> c.cov.branch_cov,
     statements_covered |-> c.cov.statements_covered,
     statements_total |-> c.cov.statements_total,
     interpretation |-> interpretation, error_details |-> error_details,
     html_report_path |-> c.html_report_path]

\* --------------------------------------------------------- _save_html_report
IndexPath(problem_id) == OutputDir \o "/" \o problem_id \o "/index.html"

\* What shutil.rmtree and shutil.copytree may do to the target: "ok", or one
\* of them raises and the handler returns "".
PublishFaults == {"ok", "rmtree_raises", "copytree_raises"}

\* _save_html_report without the removal of an existing target: copytree
\* raises FileExistsError on it.
SaveHtmlReportNoRemove(old, temp_dir, problem_id, fault, begun) ==
    IF old # NoTree THEN [tree |-> old, path |-> ""]
    ELSE IF fault = "copytree_raises"
         THEN [tree |-> IF begun THEN Damaged ELSE NoTree, path |-> ""]
         ELSE [tree |-> temp_dir, path |-> IndexPath(problem_id)]

\* _save_html_report on a target that holds `old`: the tree left at the
\* target and the path returned.  A library call that raises had either
\* begun its work, and leaves a damaged tree, or not.
SaveHtmlReport(old, temp_dir, problem_id, fault, begun) ==
    IF old # NoTree /\ fault = "rmtree_raises"
    THEN [tree |-> IF begun THEN Damaged ELSE old, path |-> ""]
    ELSE IF fault = "copytree_raises"
         THEN [tree |-> IF begun THEN Damaged ELSE NoTree, path |-> ""]
         ELSE [tree |-> temp_dir, path |-> IndexPath(problem_id)]

\* ------------------------------------------------------------------ analyze
Idle(p) == pc[p] \in {"idle", "done", "raised"}

\* Line 436: the call begins; mkdtemp creates a workspace of a new name.
Start(p) ==
    /\ Idle(p)
    /\ \A q \in Procs \ {p} : Idle(q)
    /\ made < MaxCalls
    /\ \E f \in SourceFiles, tests \in TestLists, id \in Ids :
        call' = [call EXCEPT ![p] =
                    [NoCall EXCEPT !.python_file = f, !.test_cases = tests,
                                   !.problem_id = id, !.temp_dir = made + 1,
                                   !.report_before = reports[id]]]
    /\ made' = made + 1
    /\ tempDirs' = tempDirs \cup {made + 1}
    /\ result' = [result EXCEPT ![p] = None]
    /\ pc' = [pc EXCEPT ![p] = "init"]
    /\ UNCHANGED <<reports, probe>>

\* Line 436: mkdtemp raises (no usable temporary directory, disk full).  The
\* statement stands before the try of line 438: no handler and no finally
\* clause applies, the exception reaches the caller and no result is built.
StartRaises(p) ==
    /\ Idle(p)
    /\ \A q \in Procs \ {p} : Idle(q)
    /\ made < MaxCalls
    /\ \E m \in ExcMsgs :
        call' = [call EXCEPT ![p] = [NoCall EXCEPT !.exc = [type |-> "OSError", msg |-> m]]]
    /\ result' = [result EXCEPT ![p] = None]
    /\ pc' = [pc EXCEPT ![p] = "raised"]
    /\ UNCHANGED <<tempDirs, made, reports, probe>>

\* Lines 440-454: the source file is missing
FileMissing(p) ==
    /\ pc[p] = "init"
    /\ ~call[p].python_file.exists
    /\ call' = [call EXCEPT ![p].ret = NotFoundResult(call[p])]
    /\ pc' = [pc EXCEPT ![p] = "finally"]
    /\ UNCHANGED <<result, tempDirs, made, reports, probe>>

\* A call that goes from the file test straight to harness generation.
FileFoundSkipsInspect(p) ==
    /\ pc[p] = "init"
    /\ call[p].python_file.exists
    /\ pc' = [pc EXCEPT ![p] = "generating"]
    /\ UNCHANGED <<call, result, tempDirs, made, reports, probe>>

\* Line 440: the source file exists
FileFound(p) ==
    /\ pc[p] = "init"
    /\ call[p].python_file.exists
    /\ pc' = [pc EXCEPT ![p] = "inspecting"]
    /\ UNCHANGED <<call, result, tempDirs, made, reports, probe>>

\* Line 457
Inspect(p) ==
    /\ pc[p] = "inspecting"
    /\ call' = [call EXCEPT ![p].func_name = ExtractFunctionName(call[p].python_file),
                            ![p].inspected = TRUE]
    /\ pc' = [pc EXCEPT ![p] = "generating"]
    /\ UNCHANGED <<result, tempDirs, made, reports, probe>>

\* Lines 460-465: the harness is written
Generate(p) ==
    /\ pc[p] = "generating"
    /\ call' = [call EXCEPT ![p].test_file =
                    CreateTestFile(call[p].test_cases, call[p].func_name)]
    /\ pc' = [pc EXCEPT ![p] = "running"]
    /\ UNCHANGED <<result, tempDirs, made, reports, probe>>

\* Lines 131-132: open or write raises
GenerateRaises(p) ==
    /\ pc[p] = "generating"
    /\ \E m \in ExcMsgs :
        call' = [call EXCEPT ![p].exc = [type |-> "OSError", msg |-> m]]
    /\ pc' = [pc EXCEPT ![p] = "except"]
    /\ UNCHANGED <<result, tempDirs, made, reports, probe>>

\* What the run can print for n test units
RunOutputs(n) ==
    {CollectionErrorOutput} \cup {PytestOutput(o) : o \in [1..n -> Verdicts]}

\* Line 468: the run completes within the timeout
Run(p) ==
    /\ pc[p] = "running"
    /\ \E out \in RunOutputs(Len(call[p].test_cases)) :
        call' = [call EXCEPT ![p].output = out, ![p].invoked = TRUE]
    /\ pc' = [pc EXCEPT ![p] = "parsing"]
    /\ UNCHANGED <<result, tempDirs, made, reports, probe>>

\* Lines 169-175: subprocess.run raises TimeoutExpired after 30 seconds
RunTimesOut(p) ==
    /\ pc[p] = "running"
    /\ call' = [call EXCEPT ![p].exc = [type |-> "TimeoutExpired", msg |-> "timed out"],
                            ![p].invoked = TRUE]
    /\ pc' = [pc EXCEPT ![p] = "except"]
    /\ UNCHANGED <<result, tempDirs, made, reports, probe>>

\* Lines 169-175: subprocess.run raises another exception (no pytest)
RunRaises(p) ==
    /\ pc[p] = "running"
    /\ \E m \in ExcMsgs :
        call' = [call EXCEPT ![p].exc = [type |-> "OSError", msg |-> m],
                             ![p].invoked = TRUE]
    /\ pc' = [pc EXCEPT ![p] = "except"]
    /\ UNCHANGED <<result, tempDirs, made, reports, probe>>

\* Lines 471-481: the counts, then the coverage summary found in the workspace
Parse(p) ==
    /\ pc[p] = "parsing"
    /\ LET counts == ParseTestResults(call[p].output, Len(call[p].test_cases))
       IN  \E cov_file \in CovFiles :
            call' = [call EXCEPT ![p].tests_passed = counts[1],
                                 ![p].tests_failed = counts[2],
                                 ![p].cov = ParseCoverageJson(cov_file),
                                 ![p].parsed = TRUE]
    /\ pc' = [pc EXCEPT ![p] = "publishing"]
    /\ UNCHANGED <<result, tempDirs, made, reports, probe>>

\* Lines 484-490, the run left an htmlcov tree: it is published
Publish(p) ==
    /\ pc[p] = "publishing"
    /\ \E fault \in PublishFaults, begun \in BOOLEAN :
        LET id == call[p].problem_id
            saved == SaveHtmlReport(reports[id], call[p].temp_dir, id, fault, begun)
        IN  /\ fault = "rmtree_raises" => reports[id] # NoTree
            /\ reports' = [reports EXCEPT ![id] = saved.tree]
            /\ call' = [call EXCEPT ![p].html_report_path = saved.path,
                                    ![p].pub_fault = fault,
                                    ![p].published =
                                        IF reports[id] # NoTree THEN "over" ELSE "new"]
    /\ pc' = [pc EXCEPT ![p] = "interpreting"]
    /\ UNCHANGED <<result, tempDirs, made, probe>>

\* Lines 484-486, the run left no htmlcov tree
PublishNothing(p) ==
    /\ pc[p] = "publishing"
    /\ pc' = [pc EXCEPT ![p] = "interpreting"]
    /\ UNCHANGED <<call, result, tempDirs, made, reports, probe>>

\* Lines 493-516: the verdict, the failure details, the result
Interpret(p) ==
    /\ pc[p] = "interpreting"
    /\ ~InterpretationRaises(call[p].tests_failed, call[p].cov.line_cov)
    /\ call' = [call EXCEPT ![p].ret =
            NormalResult(call[p],
                GenerateInterpretation(call[p].tests_passed, call[p].tests_failed,
                                       call[p].cov.line_cov, call[p].cov.branch_cov),
                ExtractErrors(call[p].output))]
    /\ pc' = [pc EXCEPT ![p] = "finally"]
    /\ UNCHANGED <<result, tempDirs, made, reports, probe>>

\* Lines 315: the comparison of a null line coverage raises TypeError
InterpretRaises(p) ==
    /\ pc[p] = "interpreting"
    /\ InterpretationRaises(call[p].tests_failed, call[p].cov.line_cov)
    /\ call' = [call EXCEPT ![p].exc = [type |-> "TypeError", msg |-> TypeErrorMsg]]
    /\ pc' = [pc EXCEPT ![p] = "except"]
    /\ UNCHANGED <<result, tempDirs, made, reports, probe>>

\* Lines 518-532
ExceptTimeout(p) ==
    /\ pc[p] = "except"
    /\ call[p].exc.type = "TimeoutExpired"
    /\ call' = [call EXCEPT ![p].ret = TimeoutResult(call[p])]
    /\ pc' = [pc EXCEPT ![p] = "finally"]
    /\ UNCHANGED <<result, tempDirs, made, reports, probe>>

\* Lines 534-548
ExceptException(p) ==
    /\ pc[p] = "except"
    /\ call[p].exc.type # "TimeoutExpired"
    /\ CaughtByExcept(call[p].exc)
    /\ call' = [call EXCEPT ![p].ret = ErrorResult(call[p])]
    /\ pc' = [pc EXCEPT ![p] = "finally"]
    /\ UNCHANGED <<result, tempDirs, made, reports, probe>>

\* Lines 550-553: the workspace is removed and the call returns
Cleanup(p) ==
    /\ pc[p] = "finally"
    /\ tempDirs' = tempDirs \ {call[p].temp_dir}
    /\ call' = [call EXCEPT ![p].rmtree_calls = @ + 1]
    /\ result' = [result EXCEPT ![p] = call[p].ret]
    /\ pc' = [pc EXCEPT ![p] = "done"]
    /\ UNCHANGED <<made, reports, probe>>

\* Lines 552-555: rmtree raises, the bare except swallows it, the call returns
CleanupFails(p) ==
    /\ pc[p] = "finally"
    /\ call' = [call EXCEPT ![p].rmtree_calls = @ + 1, ![p].rmtree_failed = TRUE]
    /\ result' = [result EXCEPT ![p] = call[p].ret]
    /\ pc' = [pc EXCEPT ![p] = "done"]
    /\ UNCHANGED <<tempDirs, made, reports, probe>>

NoProbe == [fn |-> "none"]

Init ==
    /\ pc = [p \in Procs |-> "idle"]
    /\ call = [p \in Procs |-> NoCall]
    /\ result = [p \in Procs |-> None]
    /\ tempDirs = {}
    /\ made = 0
    /\ reports = [id \in Ids |-> NoTree]
    /\ probe = NoProbe

Step(p) ==
    \/ Start(p)
    \/ StartRaises(p)
    \/ FileMissing(p)
    \/ FileFound(p)
    \/ Inspect(p)
    \/ Generate(p)
    \/ GenerateRaises(p)
    \/ Run(p)
    \/ RunTimesOut(p)
    \/ RunRaises(p)
    \/ Parse(p)
    \/ Publish(p)
    \/ PublishNothing(p)
    \/ Interpret(p)
    \/ InterpretRaises(p)
    \/ ExceptTimeout(p)
    \/ ExceptException(p)
    \/ Cleanup(p)
    \/ CleanupFails(p)

Next == \E p \in SeqProcs : Step(p)

\* One caller, one analyze call after the other
Spec == Init /\ [][Next]_vars

\* ------------------------------------- _generate_interpretation on its own
InterpProbes ==
    [fn : {"interpretation"}, applied : {FALSE}, passed : {0, 3},
     failed : 0..MaxFailed, line_cov : {Rat(n, 1) : n \in 0..MaxPct},
     branch_cov : {None} \cup {Rat(n, 1) : n \in 0..MaxPct}, out : {""}]

InitInterp ==
    /\ pc = [p \in Procs |-> "idle"]
    /\ call = [p \in Procs |-> NoCall]
    /\ result = [p \in Procs |-> None]
    /\ tempDirs = {}
    /\ made = 0
    /\ reports = [id \in Ids |-> NoTree]
    /\ probe \in InterpProbes

ApplyInterpretation ==
    /\ probe.fn = "interpretation"
    /\ ~probe.applied
    /\ probe' = [probe EXCEPT !.applied = TRUE,
                    !.out = GenerateInterpretation(probe.passed, probe.failed,
                                                   probe.line_cov, probe.branch_cov)]
    /\ UNCHANGED <<pc, call, result, tempDirs, made, reports>>

NextInterp == ApplyInterpretation

\* Every input of the interpreter, and one application of it
SpecInterp == InitInterp /\ [][NextInterp]_vars

\* ------------------------------------------------ _create_test_file on its own
AssertionStrings == SeqsUpTo(Sym, MaxStrLen)

HarnessProbes ==
    [fn : {"harness"}, applied : {FALSE},
     test_cases : SeqsUpTo(AssertionStrings, MaxUnits), out : {None}]

InitHarness ==
    /\ pc = [p \in Procs |-> "idle"]
    /\ call = [p \in Procs |-> NoCall]
    /\ result = [p \in Procs |-> None]
    /\ tempDirs = {}
    /\ made = 0
    /\ reports = [id \in Ids |-> NoTree]
    /\ probe \in HarnessProbes

ApplyCreateTestFile ==
    /\ probe.fn = "harness"
    /\ ~probe.applied
    /\ probe' = [probe EXCEPT !.applied = TRUE,
                    !.out = CreateTestFile(probe.test_cases, <<"f">>)]
    /\ UNCHANGED <<pc, call, result, tempDirs, made, reports>>

NextHarness == ApplyCreateTestFile

\* Every list of assertion strings, and the harness generated from it
SpecHarness == InitHarness /\ [][NextHarness]_vars

\* ------------------------------------------- _extract_function_name on its own
\* A module's syntax tree: the top-level definitions in source order, a
\* function or a class each, with the functions defined in its body.
DefNames == { <<"f">>, <<"_", "g">> }
NestedDefs == [kind : {"def"}, name : DefNames, body : {<<>>}]
TopLevelDefs ==
    [kind : {"def", "class"}, name : DefNames, body : SeqsUpTo(NestedDefs, MaxNested)]
Modules == SeqsUpTo(TopLevelDefs, MaxDefs)

\* The names of the FunctionDef nodes among defs, in order
RECURSIVE FunctionNames(_)
FunctionNames(defs) ==
    IF defs = <<>> THEN <<>>
    ELSE (IF Head(defs).kind = "def" THEN <<Head(defs).name>> ELSE <<>>)
            \o FunctionNames(Tail(defs))

\* Line 64: ast.walk yields the nodes breadth first: the top-level
\* statements in source order, then the children of the first of them,
\* then those of the second, and so on.
Walk(module) ==
    FunctionNames(module)
        \o Concat([i \in 1..Len(module) |-> FunctionNames(module[i].body)])

\* Lines 60-63: the file as _extract_function_name reads and parses it
ParsedFile(module) == [exists |-> TRUE, parses |-> TRUE, funcs |-> Walk(module)]

InspectProbes ==
    [fn : {"inspect"}, applied : {FALSE}, parses : {FALSE}, module : {<<>>}, out : {<<>>}]
        \cup [fn : {"inspect"}, applied : {FALSE}, parses : {TRUE}, module : Modules,
              out : {<<>>}]

InitInspect ==
    /\ pc = [p \in Procs |-> "idle"]
    /\ call = [p \in Procs |-> NoCall]
    /\ result = [p \in Procs |-> None]
    /\ tempDirs = {}
    /\ made = 0
    /\ reports = [id \in Ids |-> NoTree]
    /\ probe \in InspectProbes

ApplyExtractFunctionName ==
    /\ probe.fn = "inspect"
    /\ ~probe.applied
    /\ probe' = [probe EXCEPT !.applied = TRUE,
                    !.out = ExtractFunctionName(
                                IF probe.parses THEN ParsedFile(probe.module)
                                ELSE [exists |-> TRUE, parses |-> FALSE, funcs |-> <<>>])]
    /\ UNCHANGED <<pc, call, result, tempDirs, made, reports>>

NextInspect == ApplyExtractFunctionName

\* Every module, and the name found in it
SpecInspect == InitInspect /\ [][NextInspect]_vars

\* --------------------------------------------------- _extract_errors on its own
\* The captured outputs of runs of up to MaxRunTests units, and that of a
\* run that collected nothing
CapturedOutputs ==
    {CollectionErrorOutput}
        \cup {PytestOutput(o) : o \in SeqsUpTo(Verdicts, MaxRunTests)}

ErrorProbes ==
    [fn : {"errors"}, applied : {FALSE}, output : CapturedOutputs, out : {<<>>}]

InitErrors ==
    /\ pc = [p \in Procs |-> "idle"]
    /\ call = [p \in Procs |-> NoCall]
    /\ result = [p \in Procs |-> None]
    /\ tempDirs = {}
    /\ made = 0
    /\ reports = [id \in Ids |-> NoTree]
    /\ probe \in ErrorProbes

ApplyExtractErrors ==
    /\ probe.fn = "errors"
    /\ ~probe.applied
    /\ probe' = [probe EXCEPT !.applied = TRUE, !.out = ExtractErrors(probe.output)]
    /\ UNCHANGED <<pc, call, result, tempDirs, made, reports>>

NextErrors == ApplyExtractErrors

\* Every captured output, and the failure details extracted from it
SpecErrors == InitErrors /\ [][NextErrors]_vars

\* ------------------------------------------ two callers, the same identifier
\* The inputs and the environment of the concurrent specification: an
\* existing source file, one assertion, a run in which it passes, one
\* coverage summary.
RaceFile == CHOOSE f \in SourceFiles : f.exists
RaceTests == << <<"x">> >>
RaceOutput == PytestOutput([i \in 1..1 |-> "PASSED"])
RaceCov ==
    ParseCoverageJson(CHOOSE f \in CovFiles :
        /\ f.kind = "entry"
        /\ f.summary.percent_covered = Rat(95, 1)
        /\ f.summary.has_num_branches /\ f.summary.num_branches = 0
        /\ f.summary.covered_lines = 1)

RaceEnv ==
    \A p \in Procs :
        /\ call[p].temp_dir # 0 =>
              call[p].python_file = RaceFile /\ call[p].test_cases = RaceTests
        /\ call[p].invoked => call[p].output = RaceOutput
        /\ call[p].parsed => call[p].cov = RaceCov

\* Line 436: tempfile.mkdtemp creates, atomically, a directory of a name
\* that is not in use.
MkdtempNameFixed(n) == 1

MkdtempName(n) == n + 1

\* Line 436, with no caller waiting for another
RaceStart(p) ==
    /\ Idle(p)
    /\ made < MaxCalls
    /\ \E f \in SourceFiles, tests \in TestLists, id \in Ids :
        call' = [call EXCEPT ![p] =
                    [NoCall EXCEPT !.python_file = f, !.test_cases = tests,
                                   !.problem_id = id, !.temp_dir = MkdtempName(made),
                                   !.report_before = reports[id]]]
    /\ made' = made + 1
    /\ tempDirs' = tempDirs \cup {MkdtempName(made)}
    /\ result' = [result EXCEPT ![p] = None]
    /\ pc' = [pc EXCEPT ![p] = "init"]
    /\ UNCHANGED <<reports, probe>>
    /\ RaceEnv'

\* Line 468, the run of RaceEnv
RaceRun(p) == Run(p) /\ RaceEnv'

\* Lines 471-481, the coverage summary of RaceEnv
RaceParse(p) == Parse(p) /\ RaceEnv'

\* The calls of c, those of the callers other than p no longer clean: a
\* step of p has changed the target since their rmtree or copytree began.
Disturb(c, p) ==
    [q \in Procs |-> IF q = p THEN c[q] ELSE [c[q] EXCEPT !.clean = FALSE]]

\* The rank of the next call to leave _save_html_report
NextPubSeq ==
    1 + (CHOOSE m \in {call[q].pub_seq : q \in Procs} :
            \A q \in Procs : call[q].pub_seq <= m)

\* Lines 289-291: the handler of _save_html_report returns ""
PubRaised(p, fault) ==
    /\ call' = [call EXCEPT ![p].html_report_path = "", ![p].pub_fault = fault,
                            ![p].pub_seq = NextPubSeq]
    /\ pc' = [pc EXCEPT ![p] = "interpreting"]
    /\ UNCHANGED reports

\* Line 283: os.path.exists(target_dir)
PubExists(p) ==
    /\ pc[p] = "publishing"
    /\ LET exists == reports[call[p].problem_id] # NoTree
       IN  /\ call' = [call EXCEPT ![p].published = IF exists THEN "over" ELSE "new"]
           /\ pc' = [pc EXCEPT ![p] = IF exists THEN "rmtree" ELSE "copytree"]
    /\ UNCHANGED <<result, tempDirs, made, reports, probe>>

\* Line 284: shutil.rmtree lists the target and starts to unlink its
\* entries; on a target that is gone it raises FileNotFoundError.
RmtreeBegin(p) ==
    /\ pc[p] = "rmtree"
    /\ LET id == call[p].problem_id
       IN  IF reports[id] = NoTree
           THEN PubRaised(p, "rmtree_raises")
           ELSE /\ reports' = [reports EXCEPT ![id] = Damaged]
                /\ call' = Disturb([call EXCEPT ![p].clean = TRUE], p)
                /\ pc' = [pc EXCEPT ![p] = "rmtree_end"]
    /\ UNCHANGED <<result, tempDirs, made, probe>>

\* Line 284: shutil.rmtree unlinks the last entries and removes the
\* directory.  Left alone it succeeds; after a step of the other call on
\* the target it may find an entry or the directory gone, or the directory
\* not empty, and raise.
RmtreeEnd(p) ==
    /\ pc[p] = "rmtree_end"
    /\ \E raises \in BOOLEAN :
        LET id == call[p].problem_id
        IN  /\ call[p].clean => ~raises
            /\ reports[id] = NoTree => raises
            /\ IF raises
               THEN PubRaised(p, "rmtree_raises")
               ELSE /\ reports' = [reports EXCEPT ![id] = NoTree]
                    /\ call' = Disturb(call, p)
                    /\ pc' = [pc EXCEPT ![p] = "copytree"]
    /\ UNCHANGED <<result, tempDirs, made, probe>>

\* Line 285: shutil.copytree makes the target directory (os.makedirs with
\* exist_ok false: FileExistsError on a target that exists) and starts to
\* copy the files.
CopytreeBegin(p) ==
    /\ pc[p] = "copytree"
    /\ LET id == call[p].problem_id
       IN  IF reports[id] # NoTree
           THEN PubRaised(p, "copytree_raises")
           ELSE /\ reports' = [reports EXCEPT ![id] = Damaged]
                /\ call' = Disturb([call EXCEPT ![p].clean = TRUE], p)
                /\ pc' = [pc EXCEPT ![p] = "copytree_end"]
    /\ UNCHANGED <<result, tempDirs, made, probe>>

\* How a copytree that has begun may end: left alone, with the complete
\* tree; after a step of the other call on the target, with the complete
\* tree, with a tree that lacks files or holds files of the other call, or
\* with an exception; on a target that is gone, with an exception.
CopytreeOutcomes(clean, old) ==
    IF clean THEN {"complete"}
    ELSE IF old = NoTree THEN {"raises"}
    ELSE {"complete", "mixed", "raises"}

\* Lines 285-287: shutil.copytree copies the last files and returns
CopytreeEnd(p) ==
    /\ pc[p] = "copytree_end"
    /\ LET id == call[p].problem_id
       IN  \E outcome \in CopytreeOutcomes(call[p].clean, reports[id]) :
            IF outcome = "raises"
            THEN PubRaised(p, "copytree_raises")
            ELSE /\ reports' = [reports EXCEPT ![id] =
                        IF outcome = "complete" THEN call[p].temp_dir ELSE Damaged]
                 /\ call' = Disturb([call EXCEPT
                                ![p].html_report_path = IndexPath(id),
                                ![p].pub_seq = NextPubSeq], p)
                 /\ pc' = [pc EXCEPT ![p] = "interpreting"]
    /\ UNCHANGED <<result, tempDirs, made, probe>>

StepRace(p) ==
    \/ RaceStart(p)
    \/ FileFound(p)
    \/ Inspect(p)
    \/ Generate(p)
    \/ RaceRun(p)
    \/ RaceParse(p)
    \/ PubExists(p)
    \/ RmtreeBegin(p)
    \/ RmtreeEnd(p)
    \/ CopytreeBegin(p)
    \/ CopytreeEnd(p)
    \/ Interpret(p)
    \/ Cleanup(p)

NextRace == \E p \in Procs : StepRace(p)

\* Two callers whose analyze calls interleave step by step
SpecRace == Init /\ [][NextRace]_vars

\* ================================================================== claims
Returned(p) == pc[p] = "done"
\* The call returned the record of the normal exit
RanToCompletion(p) == Returned(p) /\ call[p].parsed /\ call[p].exc.type = "none"

\* C1: whenever the external run completed and analyze returned the normal
\* result, tests_passed + tests_failed equals total_tests.
C1_CountsSumToTotal ==
    \A p \in Procs :
        RanToCompletion(p) =>
            result[p].tests_passed + result[p].tests_failed = result[p].total_tests

\* C2: once analyze has returned, on whichever path, the workspace it
\* created no longer exists and its removal was attempted exactly once.
C2_WorkspaceGone ==
    \A p \in Procs :
        Returned(p) =>
            /\ call[p].temp_dir \notin tempDirs
            /\ call[p].rmtree_calls = 1

\* What holds of the exceptions raised inside the try of line 438: a call
\* holds no result before it ends and ends with one CoverageResult, every
\* field set and the interpretation non-empty; the exception of a stage is
\* caught by the outermost handlers, and one that is not the timeout yields
\* the unexpected-failure record whose interpretation and error_details
\* carry its message.
CaughtInsideTry ==
    \A p \in Procs :
        /\ ~Returned(p) => result[p] = None
        /\ pc[p] = "except" =>
              call[p].exc.type = "TimeoutExpired" \/ CaughtByExcept(call[p].exc)
        /\ Returned(p) =>
              /\ DOMAIN result[p] = ResultFields
              /\ Len(result[p].interpretation) > 0
              /\ result[p].total_tests = Len(call[p].test_cases)
              /\ call[p].exc.type \notin {"none", "TimeoutExpired"} =>
                    /\ result[p].interpretation = "Error: " \o call[p].exc.msg
                    /\ result[p].error_details = <<call[p].exc.msg>>
                    /\ result[p].tests_passed = 0
                    /\ result[p].html_report_path = ""

\* C3: every analyze call ends by returning one fully-populated
\* CoverageResult with a non-empty interpretation and no exception ever
\* reaches the caller; an exception of a stage is caught at the outermost
\* boundary and becomes the unexpected-failure record carrying its message.
C3_AlwaysAResult ==
    /\ \A p \in Procs : pc[p] # "raised"
    /\ CaughtInsideTry

\* C4: with the source file missing, analyze returns total_tests =
\* len(test_cases), tests_failed = total_tests, tests_passed = 0 and the
\* file-not-found interpretation, and has neither inspected the file, nor
\* generated a harness, nor invoked the external tool.
C4_MissingFile ==
    \A p \in Procs :
        Returned(p) /\ ~call[p].python_file.exists =>
            /\ result[p].total_tests = Len(call[p].test_cases)
            /\ result[p].tests_failed = result[p].total_tests
            /\ result[p].tests_passed = 0
            /\ result[p].interpretation = "Error: Python file not found"
            /\ Len(result[p].interpretation) > 0
            /\ ~call[p].inspected
            /\ call[p].test_file = None
            /\ ~call[p].invoked
            /\ ~call[p].parsed

\* A call on a missing file with two assertions returned
C4_Witness ==
    \E p \in Procs :
        /\ Returned(p)
        /\ ~call[p].python_file.exists
        /\ Len(call[p].test_cases) = 2

TimedOut(p) == Returned(p) /\ call[p].exc.type = "TimeoutExpired"

TimeoutMessage == "Timeout - execution exceeded 30 seconds"

\* What C5 says of every field but tests_failed
C5_Rest(p) ==
    /\ result[p].tests_passed = 0
    /\ result[p].line_coverage = Zero
    /\ result[p].statement_coverage = Zero
    /\ result[p].branch_coverage = None
    /\ result[p].statements_covered = 0
    /\ result[p].statements_total = 0
    /\ result[p].interpretation = TimeoutMessage
    /\ ~call[p].parsed

\* C5 as claimed: after a timeout every pass/fail and coverage field of the
\* result is zero, tests_failed included.
C5_Original ==
    \A p \in Procs : TimedOut(p) => result[p].tests_failed = 0 /\ C5_Rest(p)

\* C5 as amended: after a timeout tests_failed is total_tests (every
\* requested test counts as failed), tests_passed and the coverage fields
\* are zero, branch coverage is absent, the interpretation is the timeout
\* message, and nothing was parsed.
C5_Timeout ==
    \A p \in Procs :
        TimedOut(p) =>
            /\ result[p].tests_failed = Len(call[p].test_cases)
            /\ result[p].tests_failed = result[p].total_tests
            /\ C5_Rest(p)

\* A call with two assertions timed out and returned
C5_Witness ==
    \E p \in Procs : TimedOut(p) /\ Len(call[p].test_cases) = 2

Rule1(f, l, b) == f > 0
Rule2(f, l, b) == l < 50
Rule3(f, l, b) == l < 80
Rule4(f, l, b) == b # None /\ b.n < 50
Rule5(f, l, b) == b # None /\ b.n < 80
Rule6(f, l, b) == l >= 90 /\ b # None /\ b.n >= 90
Rule7(f, l, b) == l >= 90 /\ b # None /\ b.n < 90
Rule8(f, l, b) == l >= 90 /\ b = None

Ladder(f, l, b) ==
    CASE Rule1(f, l, b) -> MsgFailed(f)
      [] ~Rule1(f, l, b) /\ Rule2(f, l, b) -> MsgLowLine
      [] ~Rule1(f, l, b) /\ ~Rule2(f, l, b) /\ Rule3(f, l, b) -> MsgModerateLine
      [] ~Rule1(f, l, b) /\ ~Rule3(f, l, b) /\ Rule4(f, l, b) -> MsgLowBranch
      [] ~Rule1(f, l, b) /\ ~Rule3(f, l, b) /\ ~Rule4(f, l, b) /\ Rule5(f, l, b)
            -> MsgModerateBranch
      [] ~Rule1(f, l, b) /\ ~Rule3(f, l, b) /\ ~Rule5(f, l, b) /\ Rule6(f, l, b)
            -> MsgExcellent
      [] ~Rule1(f, l, b) /\ ~Rule3(f, l, b) /\ ~Rule5(f, l, b) /\ Rule7(f, l, b)
            -> MsgGoodLineBranches
      [] ~Rule1(f, l, b) /\ ~Rule3(f, l, b) /\ ~Rule5(f, l, b) /\ Rule8(f, l, b)
            -> MsgGoodLine
      [] OTHER -> MsgAdequate

\* C7: the interpretation is the message of the first matching rule of the
\* ladder over (failed, line, branch); a positive failed count gives the
\* failed message whatever the coverage, and passed plays no part.
C7_Ladder ==
    probe.fn = "interpretation" /\ probe.applied =>
        /\ probe.out = Ladder(probe.failed, probe.line_cov.n, probe.branch_cov)
        /\ probe.failed > 0 =>
              probe.out = Str(probe.failed) \o " test(s) failed - fix failing tests first"

\* The interpreter was applied to (passed 0, failed 2, line 95, branch 95)
C7_Witness ==
    /\ probe.fn = "interpretation" /\ probe.applied
    /\ probe.passed = 0 /\ probe.failed = 2
    /\ probe.line_cov = Rat(95, 1) /\ probe.branch_cov = Rat(95, 1)
    /\ probe.out = "2 test(s) failed - fix failing tests first"

C8_Case ==
    /\ probe.fn = "interpretation" /\ probe.applied
    /\ probe.failed = 0 /\ probe.line_cov = Rat(85, 1) /\ probe.branch_cov = None

\* C8 as claimed: (failed 0, line 85, no branch data) gives the
\* good-line-coverage-achieved message.
C8_Original == C8_Case => probe.out = "Good line coverage achieved"

\* C8 as amended: (failed 0, line 85, no branch data) gives the generic
\* "Adequate coverage" message; "Good line coverage achieved" needs a line
\* coverage of at least 90.
C8_Adequate ==
    /\ C8_Case => probe.out = "Adequate coverage"
    /\ probe.fn = "interpretation" /\ probe.applied /\ probe.failed = 0
          /\ probe.branch_cov = None =>
              (probe.out = "Good line coverage achieved" <=> probe.line_cov.n >= 90)

\* The interpreter was applied to (failed 0, line 85, no branch data)
C8_Witness == C8_Case /\ probe.passed = 3

\* C9: in every result statements_covered <= statements_total, and
\* branch_coverage is absent or within [0, 100].
C9_CoverageBounds ==
    \A p \in Procs :
        Returned(p) =>
            /\ result[p].statements_covered <= result[p].statements_total
            /\ \/ result[p].branch_coverage = None
               \/ /\ result[p].branch_coverage.n >= 0
                  /\ result[p].branch_coverage.n <= 100 * result[p].branch_coverage.d

\* s is core with whitespace before and after it, and core has none at
\* its ends
IsStripOf(core, s) ==
    /\ core = <<>> \/ (core[1] # SP /\ core[Len(core)] # SP)
    /\ \E a \in 0..Len(s) :
          /\ a + Len(core) <= Len(s)
          /\ \A k \in 1..Len(s) :
                IF k > a /\ k <= a + Len(core) THEN s[k] = core[k - a] ELSE s[k] = SP

HarnessApplied == probe.fn = "harness" /\ probe.applied

\* The units are numbered test_case_0 .. test_case_{N-1} in input order
C10_Units ==
    /\ Len(probe.out.units) = Len(probe.test_cases)
    /\ \A i \in 1..Len(probe.test_cases) :
          probe.out.units[i].name = "test_case_" \o Str(i - 1)

\* C10 as claimed: N units in input order, the body of each the input
\* verbatim when the input begins with the keyword, else the input with
\* the keyword prepended.
C10_Original ==
    HarnessApplied =>
        /\ C10_Units
        /\ \A i \in 1..Len(probe.test_cases) :
              LET s == probe.test_cases[i]
              IN  probe.out.units[i].body =
                      IF s # <<>> /\ s[1] = KW THEN s ELSE <<KW, SP>> \o s

\* C10 as amended: N units in input order, the body of each the input with
\* its surrounding whitespace stripped when the stripped input begins with
\* the keyword, else the stripped input with "assert " prepended.
C10_Harness ==
    HarnessApplied =>
        /\ C10_Units
        /\ \A i \in 1..Len(probe.test_cases) :
              \E core \in AssertionStrings :
                  /\ IsStripOf(core, probe.test_cases[i])
                  /\ probe.out.units[i].body =
                        IF core # <<>> /\ core[1] = KW THEN core ELSE <<KW, SP>> \o core

\* A harness was generated from a padded keyword assertion and a bare one
C10_Witness ==
    /\ HarnessApplied
    /\ probe.test_cases = << <<SP, KW>>, <<"x", SP>> >>
    /\ probe.out.units[1].body = <<KW>>
    /\ probe.out.units[2].body = <<KW, SP, "x">>

PubFinished(p) == call[p].pub_seq > 0

PublishedLast(p) == \A q \in Procs : call[q].pub_seq <= call[p].pub_seq

Active(p) == pc[p] \notin {"idle", "done", "raised"}

\* C11 as claimed: when two concurrent calls with the same identifier have
\* both been through report publishing, the destination holds the report
\* of the call that published last.
C11_Original ==
    (\A p \in Procs : PubFinished(p)) =>
        \A p \in Procs :
            PublishedLast(p) => reports[call[p].problem_id] = call[p].temp_dir

\* C11 as amended: concurrent calls have distinct workspaces, each on disk
\* while its call runs; a call whose rmtree or copytree raised returns an
\* empty path; and the destination holds the complete report of a call,
\* which returns its index.html, when no step of the other call has
\* touched the destination since that call's copytree began.
C11_Race ==
    /\ \A p, q \in Procs :
          p # q /\ Active(p) /\ Active(q) => call[p].temp_dir # call[q].temp_dir
    /\ \A p \in Procs : Active(p) => call[p].temp_dir \in tempDirs
    /\ \A p \in Procs :
          /\ PubFinished(p) /\ call[p].pub_fault # "ok" => call[p].html_report_path = ""
          /\ PubFinished(p) /\ call[p].pub_fault = "ok" =>
                call[p].html_report_path = IndexPath(call[p].problem_id)
          /\ PubFinished(p) /\ call[p].pub_fault = "ok" /\ call[p].clean =>
                reports[call[p].problem_id] = call[p].temp_dir

\* Both calls found no report; the first copied its report undisturbed, the
\* copytree of the second, the last to publish, raised on the directory
\* that exists: the first call's report stays.
C11_Witness ==
    \E p, q \in Procs :
        /\ p # q /\ PubFinished(p) /\ PubFinished(q)
        /\ call[p].published = "new" /\ call[q].published = "new"
        /\ PublishedLast(q) /\ call[q].pub_fault = "copytree_raises"
        /\ call[p].pub_fault = "ok" /\ call[p].clean
        /\ reports[call[p].problem_id] = call[p].temp_dir

\* The stages in their order; "interpreting", "finally" and "done" are the
\* way from PUBLISHING to DONE (interpretation, result, cleanup, return).
StageOrder ==
    {<<"init", "inspecting">>, <<"inspecting", "generating">>,
     <<"generating", "running">>, <<"running", "parsing">>,
     <<"parsing", "publishing">>, <<"publishing", "interpreting">>,
     <<"interpreting", "finally">>, <<"except", "finally">>, <<"finally", "done">>}

\* A call begins after the last one has ended
NewCall == {"idle", "done", "raised"} \X {"init", "raised"}

\* The exits the claim names: from INIT on a missing file, from RUNNING on
\* a timeout or an exception; an exception of the interpretation, after
\* PUBLISHING, skips none of the stages.
ClaimedExits ==
    {<<"init", "finally">>, <<"running", "except">>, <<"interpreting", "except">>}

\* The exit the claim leaves out: an exception while the harness is written
GeneratingExit == {<<"generating", "except">>}

Moves(allowed) ==
    \A p \in Procs : pc'[p] # pc[p] => <<pc[p], pc'[p]>> \in allowed

\* C12 as claimed: the stages of a call run in the fixed order, each at
\* most once, and a call leaves the order only from INIT (file missing)
\* and from RUNNING (timeout, exception).
C12_Original == [][Moves(StageOrder \cup NewCall \cup ClaimedExits)]_vars

\* The tool is run only on a written harness, the output is parsed only
\* after the run, a report is published only after run and parsing
RunAfterHarness ==
    \A p \in Procs :
        /\ call[p].invoked => call[p].test_file # None /\ call[p].inspected
        /\ call[p].parsed => call[p].invoked
        /\ call[p].published # "no" => call[p].parsed /\ call[p].output # <<>>
        /\ pc[p] \in {"publishing", "interpreting"} => call[p].parsed

\* C12 as amended: the stages of a call run in the fixed order, each at
\* most once; a call leaves the order from INIT (file missing), from
\* GENERATING (exception while the harness is written), from RUNNING
\* (timeout, exception) and, all stages done, from the interpretation
\* (exception); the tool is never run before the harness is written and
\* nothing is published before the run has completed.
C12_Stages ==
    /\ [][Moves(StageOrder \cup NewCall \cup ClaimedExits \cup GeneratingExit)]_vars
    /\ []RunAfterHarness

\* A call returned the unexpected-failure record from GENERATING, the tool
\* never run
C12_Witness ==
    \E p \in Procs :
        /\ Returned(p)
        /\ call[p].exc.type = "OSError"
        /\ call[p].inspected /\ call[p].test_file = None /\ ~call[p].invoked
        /\ result[p].interpretation = "Error: " \o call[p].exc.msg

\* The list came from the coarse pass: the targeted pass, which opens every
\* block with a heading, found nothing
FromFallback == ScanFailed(probe.output, 1, <<>>) = <<>>

\* C13: whatever the captured output, _extract_errors returns at most 20
\* entries, and at most 5 when they come from the coarse fallback pass.
C13_Cap ==
    probe.fn = "errors" /\ probe.applied =>
        /\ Len(probe.out) <= 20
        /\ FromFallback => Len(probe.out) <= 5

\* The first top-level function of the module whose name does not begin
\* with an underscore, or the fallback
FirstTopLevelPublic(module) ==
    LET public == {i \in 1..Len(module) :
                      module[i].kind = "def" /\ ~IsPrivate(module[i].name)}
    IN  IF public = {} THEN Candidate
        ELSE module[CHOOSE i \in public : \A j \in public : i <= j].name

\* C14: _extract_function_name returns the name of the first top-level
\* function, in source order, whose name does not begin with an
\* underscore, never a function nested in a function or a class, and the
\* fallback 'candidate' when there is none or the file does not parse.
C14_TopLevel ==
    probe.fn = "inspect" /\ probe.applied =>
        probe.out = IF probe.parses THEN FirstTopLevelPublic(probe.module) ELSE Candidate

\* The call returned the record of one of the three early exits
EarlyExit(p) ==
    Returned(p) /\ (~call[p].python_file.exists \/ call[p].exc.type # "none")

\* C15: when analyze returns by an early exit (file not found, timeout,
\* unexpected exception) the html_report_path of the result is empty and
\* the report subtree of the call's identifier is what it was when the
\* call began.
C15_Frame ==
    \A p \in Procs :
        EarlyExit(p) =>
            /\ result[p].html_report_path = ""
            /\ reports[call[p].problem_id] = call[p].report_before

====
